---- MODULE Spec2Model ----
(***************************************************************************)
(* Membership/authorization engine of the Band aggregate                   *)
(* (backend/src/models/Band.js): the member list of one Band document, the *)
(* copy of it in the store, and the methods isMember, hasPermission,       *)
(* addMember and removeMember.                                             *)
(*                                                                         *)
(* Sequences are 1-based: FindIndex returns 0 where Array.findIndex        *)
(* returns -1, and i where it returns i-1.                                 *)
(*                                                                         *)
(* Policy lifecycle engine of the InsurancePolicy aggregate                *)
(* (backend/src/models/InsurancePolicy.js): one policy document, the copy  *)
(* of it in the store, the Equipment collection its coveredItems refer to, *)
(* the virtuals status and daysRemaining and the methods isExpiringSoon,   *)
(* addClaim and getTotalCoverageValue.                                     *)
(***************************************************************************)
EXTENDS Naturals, Sequences, FiniteSets

VARIABLES members, stored, now, last,
          policy, policyStored, equipment, clock, got,
          write, session, storeV, response, gear, reply,
          account, authNow, authReply, mailbox

bandVars == <<members, stored, now, last>>

policyVars == <<policy, policyStored, equipment, clock, got>>

\* The state of the engines around the two aggregates: the outcome of the
\* last write to a store that can fail; the two requests that work on the
\* same Band at once, each on its own loaded document (session), and the
\* version key of the stored Band with the tally of the saves (storeV).
failVars == <<write>>

raceVars == <<session, storeV>>

\* The answer of the insurance router to the last request.
routerVars == <<response>>

\* The Equipment collection of the equipment controller and its answer to
\* the last request.
gearVars == <<gear, reply>>

\* The User document of the auth controller, Date.now(), the answer to the
\* last request, and the reset token the latest forgotPassword made for the
\* user, with the time it was made and whether a reset has used it.
authVars == <<account, authNow, authReply, mailbox>>

restVars == <<failVars, raceVars, routerVars, gearVars, authVars>>

vars == <<members, stored, now, last, policy, policyStored, equipment, clock, got,
          write, session, storeV, response, gear, reply,
          account, authNow, authReply, mailbox>>

\* ---------------------------------------------------------------- bounds
\* Date.now() ranges over 0..MaxTime.
MaxTime == 1

\* ---------------------------------------------------------------- values
\* JavaScript's undefined: a field the caller's object does not carry.
Undefined == "undefined"

Users == {"u1", "u2"}

Roles == {"guitarist", "manager"}

\* The enum of memberSchema.permissions.
PermissionTags == {"admin", "edit", "view", "maintenance", "inventory"}

\* The permission arrays callers pass to addMember.
PermissionArrays == {<<"view">>, <<"admin">>}

\* The permission arrays of the members of a loaded Band.
LoadedPermissionArrays ==
    PermissionArrays \cup {<< >>, <<"edit", "admin">>, <<"edit", "maintenance">>}

Times == 0..MaxTime

\* The optional keys of a memberData object besides role.
OptionalKeys == {"permissions", "dateJoined", "isActive"}

\* The memberData objects callers pass to addMember: a user reference and,
\* optionally, role, permissions, dateJoined and isActive.  carries holds
\* the optional keys the object has; a key it does not have reads undefined
\* (its field here is then a fixed filler that no definition reads).  A
\* dateJoined the caller supplies is the earliest date, 0.
MemberData ==
    {md \in [userId : Users,
             role : Roles \cup {Undefined},
             permissions : PermissionArrays,
             dateJoined : {0},
             isActive : BOOLEAN,
             carries : SUBSET OptionalKeys] :
        /\ "permissions" \notin md.carries => md.permissions = <<"view">>
        /\ "isActive" \notin md.carries => md.isActive = TRUE}

\* No memberData (the call took none, or it is not recorded).
NoData ==
    [userId |-> Undefined, role |-> Undefined, permissions |-> <<"view">>,
     dateJoined |-> 0, isActive |-> TRUE, carries |-> {}]

\* Array.prototype.includes
Includes(arr, x) == \E i \in 1..Len(arr) : arr[i] = x

\* ------------------------------------------------------------ the schema
\* Casting a pushed object to a memberSchema subdocument.  The defaults are
\* applied to the paths the object does not carry: dateJoined defaults to
\* Date.now and isActive to true.  permissions is an array path: the
\* default ['view'] is declared inside the element definition
\* [{ type: String, enum, default }], where it is an option of the element
\* type and not of the array, so the array path keeps the implicit default
\* of every array path, the empty array.
CastMember(md, t) ==
    [userId |-> md.userId,
     role |-> md.role,
     permissions |-> IF "permissions" \in md.carries THEN md.permissions ELSE << >>,
     dateJoined |-> IF "dateJoined" \in md.carries THEN md.dateJoined ELSE t,
     isActive |-> IF "isActive" \in md.carries THEN md.isActive ELSE TRUE]

\* role is required: save() rejects a document holding a member without one.
Validates(ms) == \A i \in 1..Len(ms) : ms[i].role # Undefined

\* --------------------------------------------------------------- queries
\* this.members.findIndex(m => m.userId.toString() === userId.toString())
FindIndex(ms, userId) ==
    IF \E i \in 1..Len(ms) : ms[i].userId = userId
    THEN CHOOSE i \in 1..Len(ms) :
            /\ ms[i].userId = userId
            /\ \A j \in 1..(i - 1) : ms[j].userId # userId
    ELSE 0

\* isMember that takes any record of the user, active or not.
IsMemberAnyRecord(ms, userId) == \E i \in 1..Len(ms) : ms[i].userId = userId

\* bandSchema.methods.isMember
IsMember(ms, userId) ==
    \E i \in 1..Len(ms) : ms[i].userId = userId /\ ms[i].isActive

\* this.members.find(m => m.userId.toString() === userId.toString() && m.isActive)
FindActive(ms, userId) ==
    IF \E i \in 1..Len(ms) : ms[i].userId = userId /\ ms[i].isActive
    THEN CHOOSE i \in 1..Len(ms) :
            /\ ms[i].userId = userId /\ ms[i].isActive
            /\ \A j \in 1..(i - 1) : ~(ms[j].userId = userId /\ ms[j].isActive)
    ELSE 0

\* hasPermission that finds the member by user alone, active or not.
HasPermissionAnyRecord(ms, userId, permission) ==
    LET m == FindIndex(ms, userId) IN
    IF m = 0 THEN FALSE
    ELSE IF Includes(ms[m].permissions, "admin") THEN TRUE
    ELSE Includes(ms[m].permissions, permission)

\* hasPermission without the admin rule.
HasPermissionNoAdmin(ms, userId, permission) ==
    LET m == FindActive(ms, userId) IN
    IF m = 0 THEN FALSE ELSE Includes(ms[m].permissions, permission)

\* bandSchema.methods.hasPermission
HasPermission(ms, userId, permission) ==
    LET m == FindActive(ms, userId) IN
    IF m = 0 THEN FALSE
    ELSE IF Includes(ms[m].permissions, "admin") THEN TRUE
    ELSE Includes(ms[m].permissions, permission)

\* ------------------------------------------------------------- mutations
\* memberData.role || existingMember.role: undefined is falsy, every role
\* string of Roles is truthy.
RoleOr(md, role) == IF md.role # Undefined THEN md.role ELSE role

\* memberData.permissions || existingMember.permissions: undefined is falsy,
\* every array (the empty one too) is truthy.
PermissionsOr(md, permissions) ==
    IF "permissions" \in md.carries THEN md.permissions ELSE permissions

\* addMember that pushes whether or not the user has a record.
AddMemberDocAlwaysPush(ms, md, t) == Append(ms, CastMember(md, t))

\* addMember that replaces the record of an existing member by a new one.
AddMemberDocReplace(ms, md, t) ==
    LET existingMemberIndex == FindIndex(ms, md.userId) IN
    IF existingMemberIndex > 0
    THEN [ms EXCEPT ![existingMemberIndex] =
            CastMember([md EXCEPT !.role = RoleOr(md, ms[existingMemberIndex].role)], t)]
    ELSE Append(ms, CastMember(md, t))

\* The member list bandSchema.methods.addMember leaves in the document.
AddMemberDoc(ms, md, t) ==
    LET existingMemberIndex == FindIndex(ms, md.userId) IN
    IF existingMemberIndex > 0
    THEN [ms EXCEPT ![existingMemberIndex] =
            [@ EXCEPT !.role = RoleOr(md, @),
                      !.permissions = PermissionsOr(md, @),
                      !.isActive = TRUE]]
    ELSE Append(ms, CastMember(md, t))

\* removeMember that deletes the record.
RemoveMemberDocSplice(ms, userId) ==
    LET memberIndex == FindIndex(ms, userId) IN
    IF memberIndex > 0
    THEN [i \in 1..(Len(ms) - 1) |-> IF i < memberIndex THEN ms[i] ELSE ms[i + 1]]
    ELSE ms

\* The member list bandSchema.methods.removeMember leaves in the document.
RemoveMemberDoc(ms, userId) ==
    LET memberIndex == FindIndex(ms, userId) IN
    IF memberIndex > 0
    THEN [ms EXCEPT ![memberIndex] = [@ EXCEPT !.isActive = FALSE]]
    ELSE ms

\* Whether bandSchema.methods.removeMember calls this.save().
RemoveMemberSaves(ms, userId) == FindIndex(ms, userId) > 0

\* ============================================================ the policy
\* ---------------------------------------------------------------- bounds
\* The claims filed against the policy.
MaxClaims == 2

\* ----------------------------------------------------------------- dates
\* 1000 * 60 * 60 * 24: the milliseconds of a day.
MsPerDay == 86400000

\* A Date is a number of milliseconds; it is written here as whole days and
\* the milliseconds of the last day, value = day * MsPerDay + ms, with
\* 0 <= ms < MsPerDay.  Day 0 is 2024-01-01 (UTC), so that 2024-12-15 is day
\* 349, 2024-12-31 day 365 and 2025-01-15 day 380.
D(day, ms) == [day |-> day, ms |-> ms]

Days == {0, 334, 335, 349, 365, 380}

MsOfDay == {0, 1, MsPerDay - 1}

\* The values of new Date().
Instants == [day : Days, ms : MsOfDay]

\* a < b on Dates.
Before(a, b) == a.day < b.day \/ (a.day = b.day /\ a.ms < b.ms)

\* Math.abs(a - b) on Dates.
AbsDiff(a, b) ==
    LET hi == IF Before(a, b) THEN b ELSE a
        lo == IF Before(a, b) THEN a ELSE b
    IN  IF hi.ms >= lo.ms
        THEN D(hi.day - lo.day, hi.ms - lo.ms)
        ELSE D(hi.day - lo.day - 1, hi.ms + MsPerDay - lo.ms)

\* Math.ceil(diffTime / (1000 * 60 * 60 * 24))
CeilDays(diffTime) == diffTime.day + (IF diffTime.ms > 0 THEN 1 ELSE 0)

\* ---------------------------------------------------------------- values
\* The start and end dates of the policies.
StartDates == {D(0, 0), D(349, 1), D(380, 0)}

EndDates == {D(0, 0), D(365, 0), D(365, 1)}

EquipmentIds == {"e1", "e2", "e3", "e4"}

\* The Equipment collection: e1 is worth 500, e2 is no document of the
\* collection, e3 is a document without currentValue, e4 is worth 300.
EquipmentCollection ==
    [e \in EquipmentIds |->
        [exists |-> e # "e2", hasValue |-> e \in {"e1", "e4"},
         currentValue |-> IF e = "e1" THEN 500 ELSE IF e = "e4" THEN 300 ELSE 0]]

\* The coveredItems of the policies.
CoveredItemLists == {<<"e1", "e2">>, <<"e4", "e3", "e1">>}

\* The claimData objects callers pass to addClaim: date and description,
\* and optionally status.
ClaimData ==
    {cd \in [date : {D(0, 0)}, description : {"theft"},
             status : {"Pending", "Paid"}, carries : SUBSET {"status"}] :
        "status" \notin cd.carries => cd.status = "Pending"}

\* No claimData (the call took none).
NoClaim ==
    [date |-> D(0, 0), description |-> Undefined, status |-> "Pending",
     carries |-> {}]

\* Casting a pushed object to a claimHistory subdocument: status defaults to
\* Pending.
CastClaim(cd) ==
    [date |-> cd.date, description |-> cd.description,
     status |-> IF "status" \in cd.carries THEN cd.status ELSE "Pending"]

\* A new policy document: the required dates, isActive (default true),
\* coveredItems, and no claims.  populated tells that coveredItems of the
\* loaded document has been replaced by the Equipment documents.
Policies ==
    [isActive : BOOLEAN, startDate : StartDates, endDate : EndDates,
     coveredItems : CoveredItemLists, claimHistory : {<< >>},
     populated : {FALSE}]

\* The paths of the document the store holds.
StoredOf(p) ==
    [isActive |-> p.isActive, startDate |-> p.startDate, endDate |-> p.endDate,
     coveredItems |-> p.coveredItems, claimHistory |-> p.claimHistory]

\* --------------------------------------------------------------- derived
\* status with the expiry comparison reversed (endDate > now).
StatusReversedExpiry(p, t) ==
    IF ~p.isActive THEN "Inactive"
    ELSE IF Before(t, p.endDate) THEN "Expired"
    ELSE IF Before(t, p.startDate) THEN "Future"
    ELSE "Active"

\* status that looks at the dates before the active flag.
StatusDatesFirst(p, t) ==
    IF Before(p.endDate, t) THEN "Expired"
    ELSE IF ~p.isActive THEN "Inactive"
    ELSE IF Before(t, p.startDate) THEN "Future"
    ELSE "Active"

\* status that tests Future before Expired.
StatusFutureFirst(p, t) ==
    IF ~p.isActive THEN "Inactive"
    ELSE IF Before(t, p.startDate) THEN "Future"
    ELSE IF Before(p.endDate, t) THEN "Expired"
    ELSE "Active"

\* status with an exclusive end: Expired from endDate on.
StatusEndExclusive(p, t) ==
    IF ~p.isActive THEN "Inactive"
    ELSE IF ~Before(t, p.endDate) THEN "Expired"
    ELSE IF Before(t, p.startDate) THEN "Future"
    ELSE "Active"

\* insurancePolicySchema.virtual('status'), read at time t
Status(p, t) ==
    IF ~p.isActive THEN "Inactive"
    ELSE IF Before(p.endDate, t) THEN "Expired"
    ELSE IF Before(t, p.startDate) THEN "Future"
    ELSE "Active"

\* daysRemaining without the test for an expired policy.
DaysRemainingNoFloor(p, t) == CeilDays(AbsDiff(p.endDate, t))

\* daysRemaining that rounds down.
DaysRemainingRoundDown(p, t) ==
    IF Before(p.endDate, t) THEN 0 ELSE AbsDiff(p.endDate, t).day

\* insurancePolicySchema.virtual('daysRemaining'), read at time t
DaysRemaining(p, t) ==
    IF Before(p.endDate, t) THEN 0 ELSE CeilDays(AbsDiff(p.endDate, t))

\* The days of "expiring soon".
SoonDays == 30

\* isExpiringSoon with an exclusive bound.
IsExpiringSoonExclusive(p, t) ==
    LET daysRemaining == DaysRemaining(p, t) IN
    daysRemaining > 0 /\ daysRemaining < SoonDays

\* insurancePolicySchema.methods.isExpiringSoon, called at time t
IsExpiringSoon(p, t) ==
    LET daysRemaining == DaysRemaining(p, t) IN
    daysRemaining > 0 /\ daysRemaining <= SoonDays

\* addClaim that files nothing against a policy that is not active.
AddClaimDocActiveOnly(p, cd) ==
    IF p.isActive THEN [p EXCEPT !.claimHistory = Append(@, CastClaim(cd))] ELSE p

\* addClaim that puts the claim first.
AddClaimDocFirst(p, cd) ==
    [p EXCEPT !.claimHistory = <<CastClaim(cd)>> \o @]

\* The document insurancePolicySchema.methods.addClaim leaves:
\* this.claimHistory.push(claimData)
AddClaimDoc(p, cd) == [p EXCEPT !.claimHistory = Append(@, CastClaim(cd))]

\* this.populate('coveredItems'): the Equipment documents of the references
\* that resolve, in their order.
Populate(items, eq) == SelectSeq(items, LAMBDA e : eq[e].exists)

\* item.currentValue || 0
ValueOrZero(item) == IF item.hasValue THEN item.currentValue ELSE 0

\* coveredItems.reduce((total, item) => total + (item.currentValue || 0), 0)
RECURSIVE SumValues(_, _)
SumValues(items, eq) ==
    IF items = << >> THEN 0
    ELSE SumValues(SubSeq(items, 1, Len(items) - 1), eq)
         + ValueOrZero(eq[items[Len(items)]])

\* getTotalCoverageValue whose reducer assigns instead of accumulating.
TotalCoverageValueLastOnly(p, eq) ==
    LET items == Populate(p.coveredItems, eq) IN
    IF items = << >> THEN 0 ELSE ValueOrZero(eq[items[Len(items)]])

\* insurancePolicySchema.methods.getTotalCoverageValue
TotalCoverageValue(p, eq) == SumValues(Populate(p.coveredItems, eq), eq)

\* What the last call on the policy was and returned.  A result is of the
\* time of the call: the clock moving on drops it.
PolicyCall(op, status, days, soon, total, claim) ==
    [op |-> op, status |-> status, days |-> days, soon |-> soon,
     total |-> total, claim |-> claim]

NoCall == PolicyCall("none", "none", 0, FALSE, 0, NoClaim)

\* The policy of the specifications of the Band: none is looked at.
PolicyIdle ==
    /\ policy = [isActive |-> TRUE, startDate |-> D(0, 0), endDate |-> D(0, 0),
                 coveredItems |-> << >>, claimHistory |-> << >>,
                 populated |-> FALSE]
    /\ policyStored = StoredOf(policy)
    /\ equipment = EquipmentCollection
    /\ clock = D(0, 0)
    /\ got = NoCall

\* ====================================================== the failing store
\* What the last operation on a store that can fail did: the aggregate it
\* worked on, the operation, how often it called this.save(), whether the
\* write of the store failed, and how the promise it returned settled.
WriteOutcome(engine, op, saves, failed, settled) ==
    [engine |-> engine, op |-> op, saves |-> saves, failed |-> failed,
     settled |-> settled]

NoWrite == WriteOutcome("none", "none", 0, FALSE, "none")

WriteIdle == write = NoWrite

\* ========================================================= the requests
\* The requests that call addMember on the same Band.
Procs == {1, 2}

\* A request: where it is (idle, loaded, done), the document it loaded
\* (base) and as addMember left it (doc), the version key __v it loaded,
\* the saves the store had taken when it loaded, and how its save settled.
NoSession ==
    [pc |-> "idle", base |-> << >>, doc |-> << >>, v |-> 0, seen |-> 0,
     settled |-> "none"]

\* The stored Band besides its members: the version key __v, the saves
\* taken, and the request whose save was taken last.
NoSaves == [v |-> 0, saves |-> 0, lastSaver |-> 0]

RaceIdle == session = [p \in Procs |-> NoSession] /\ storeV = NoSaves

\* ============================================================ the router
\* No request answered yet.
NoResponse ==
    [method |-> "none", path |-> << >>, authenticated |-> FALSE,
     valid |-> FALSE, status |-> 0, handler |-> "none", route |-> 0]

RouterIdle == response = NoResponse

\* ========================================================= the equipment
EquipmentDocIds == {"q1", "q2"}

\* No Equipment document under an id.
NoGear ==
    [exists |-> FALSE, userId |-> Undefined, createdBy |-> Undefined,
     name |-> Undefined, maintenanceHistory |-> << >>,
     maintenanceSchedule |-> << >>]

NoReply == [op |-> "none", user |-> Undefined, id |-> Undefined, status |-> 0]

GearIdle == gear = [e \in EquipmentDocIds |-> NoGear] /\ reply = NoReply

\* ============================================================= the account
\* The User document: the password hash is the hash of the password the
\* user registered with; passwordResetToken and passwordResetExpires are
\* not set (reset holds the pair when it is set).
NewAccount == [passwordHash |-> [hashOf |-> "Old#pass1"], reset |-> {}]

NoAuthReply ==
    [op |-> "none", token |-> Undefined, password |-> Undefined, status |-> 0,
     code |-> "none"]

AuthIdle ==
    account = NewAccount /\ authNow = 0 /\ authReply = NoAuthReply /\ mailbox = {}

\* The engines around the two aggregates at rest.
RestIdle == WriteIdle /\ RaceIdle /\ RouterIdle /\ GearIdle /\ AuthIdle

\* ============================================================== the Band
\* ------------------------------------------------------------ the record
\* What the last call was and did: the method, its arguments, the branch it
\* took, whether the user was an active member when it was called, whether
\* it called this.save(), and what it returned (the queries).  md is what an
\* addMember read of its memberData; afterRemove tells that the call before
\* an addMember was removeMember of the same user.
Call(op, userId, permission, branch, wasActive, saved, ret, md, afterRemove) ==
    [op |-> op, userId |-> userId, permission |-> permission, branch |-> branch,
     wasActive |-> wasActive, saved |-> saved, ret |-> ret, md |-> md,
     afterRemove |-> afterRemove]

Created ==
    Call("create", Undefined, Undefined, "none", FALSE, FALSE, FALSE, NoData, FALSE)

\* A Band is created with no members.
Init ==
    /\ members = << >>
    /\ stored = << >>
    /\ now = 0
    /\ last = Created
    /\ PolicyIdle
    /\ RestIdle

\* this.save(): the document is validated and, when valid, written.
Save(ms, st) == IF Validates(ms) THEN ms ELSE st

\* What addMember reads of memberData: the update branch reads userId, role
\* and permissions; the push branch hands the whole object to the schema.
ReadOf(md, branch) ==
    IF branch = "update"
    THEN [md EXCEPT !.dateJoined = 0, !.isActive = TRUE,
                    !.carries = @ \cap {"permissions"}]
    ELSE md

\* The branch addMember takes.
AddMemberBranch(ms, md) == IF FindIndex(ms, md.userId) > 0 THEN "update" ELSE "push"

\* band.addMember(memberData).  The callers pass memberData the schema
\* accepts: a new member carries the required role.
AddMember(md) ==
    /\ (md.role = Undefined) => (FindIndex(members, md.userId) > 0)
    /\ members' = AddMemberDoc(members, md, now)
    /\ stored' = Save(members', stored)
    /\ last' = Call("addMember", md.userId, Undefined,
                    AddMemberBranch(members, md),
                    IsMember(members, md.userId), TRUE, FALSE,
                    ReadOf(md, AddMemberBranch(members, md)),
                    last.op = "removeMember" /\ last.userId = md.userId)
    /\ UNCHANGED <<now, policyVars, restVars>>

\* band.removeMember(userId)
RemoveMember(userId) ==
    /\ members' = RemoveMemberDoc(members, userId)
    /\ stored' = IF RemoveMemberSaves(members, userId)
                 THEN Save(members', stored) ELSE stored
    /\ last' = Call("removeMember", userId, Undefined,
                    IF FindIndex(members, userId) > 0 THEN "deactivate" ELSE "resolve",
                    IsMember(members, userId), RemoveMemberSaves(members, userId),
                    FALSE, NoData, FALSE)
    /\ UNCHANGED <<now, policyVars, restVars>>

\* The clock advances between calls.
Tick ==
    /\ now < MaxTime
    /\ now' = now + 1
    /\ UNCHANGED <<members, stored, last, policyVars, restVars>>

Next ==
    \/ \E md \in MemberData : AddMember(md)
    \/ \E u \in Users : RemoveMember(u)
    \/ Tick

Spec == Init /\ [][Next]_vars

\* ------------------------------------------------------------ the queries
\* The member subdocuments of a loaded Band.
Member ==
    [userId : Users, role : Roles, permissions : LoadedPermissionArrays,
     dateJoined : Times, isActive : BOOLEAN]

\* The member lists of a loaded Band, as the mutations build them: one record
\* per user.
MemberLists ==
    {<< >>} \cup {<<m>> : m \in Member}
    \cup {<<p[1], p[2]>> : p \in {q \in Member \X Member : q[1].userId # q[2].userId}}

\* A Band loaded with any of these member lists.
InitQuery ==
    /\ members \in MemberLists
    /\ stored = members
    /\ now = 0
    /\ last = Created
    /\ PolicyIdle
    /\ RestIdle

\* band.isMember(userId)
IsMemberCall(userId) ==
    /\ last' = Call("isMember", userId, Undefined, "none",
                    IsMember(members, userId), FALSE, IsMember(members, userId),
                    NoData, FALSE)
    /\ UNCHANGED <<members, stored, now, policyVars, restVars>>

\* band.hasPermission(userId, permission)
HasPermissionCall(userId, permission) ==
    /\ last' = Call("hasPermission", userId, permission, "none",
                    IsMember(members, userId), FALSE,
                    HasPermission(members, userId, permission), NoData, FALSE)
    /\ UNCHANGED <<members, stored, now, policyVars, restVars>>

NextQuery ==
    \/ \E u \in Users : IsMemberCall(u)
    \/ \E u \in Users, p \in PermissionTags : HasPermissionCall(u, p)

SpecQuery == InitQuery /\ [][NextQuery]_vars

\* The member list of every reachable Band is one of MemberLists.
MembersTyped == members \in MemberLists /\ stored = members

\* ===================================================== the policy engine
\* The Band of the specification of the policy: none is looked at.
BandIdle ==
    /\ members = << >>
    /\ stored = << >>
    /\ now = 0
    /\ last = Created

\* A policy is created at day 0 with no claims, and saved.
InitPolicy ==
    /\ policy \in Policies
    /\ policyStored = StoredOf(policy)
    /\ equipment = EquipmentCollection
    /\ clock = D(0, 0)
    /\ got = NoCall
    /\ BandIdle
    /\ RestIdle

\* policy.status
StatusRead ==
    /\ got' = PolicyCall("status", Status(policy, clock), 0, FALSE, 0, NoClaim)
    /\ UNCHANGED <<policy, policyStored, equipment, clock, bandVars, restVars>>

\* policy.daysRemaining
DaysRemainingRead ==
    /\ got' = PolicyCall("daysRemaining", "none", DaysRemaining(policy, clock),
                         FALSE, 0, NoClaim)
    /\ UNCHANGED <<policy, policyStored, equipment, clock, bandVars, restVars>>

\* policy.isExpiringSoon()
IsExpiringSoonCall ==
    /\ got' = PolicyCall("isExpiringSoon", "none", 0,
                         IsExpiringSoon(policy, clock), 0, NoClaim)
    /\ UNCHANGED <<policy, policyStored, equipment, clock, bandVars, restVars>>

\* policy.addClaim(claimData): push, then this.save().  The callers pass
\* claimData the schema accepts (date and description are required).
AddClaim(cd) ==
    /\ Len(policy.claimHistory) < MaxClaims
    /\ policy' = AddClaimDoc(policy, cd)
    /\ policyStored' = StoredOf(policy')
    /\ got' = PolicyCall("addClaim", "none", 0, FALSE, 0, cd)
    /\ UNCHANGED <<equipment, clock, bandVars, restVars>>

\* policy.getTotalCoverageValue(): populate, then reduce.
GetTotalCoverageValue ==
    /\ policy' = [policy EXCEPT !.populated = TRUE]
    /\ got' = PolicyCall("getTotalCoverageValue", "none", 0, FALSE,
                         TotalCoverageValue(policy, equipment), NoClaim)
    /\ UNCHANGED <<policyStored, equipment, clock, bandVars, restVars>>

\* Time passes: new Date() is later at the next call.
ClockAdvances ==
    /\ \E t \in Instants : Before(clock, t) /\ clock' = t
    /\ got' = NoCall
    /\ UNCHANGED <<policy, policyStored, equipment, bandVars, restVars>>

NextPolicy ==
    \/ StatusRead
    \/ DaysRemainingRead
    \/ IsExpiringSoonCall
    \/ \E cd \in ClaimData : AddClaim(cd)
    \/ GetTotalCoverageValue
    \/ ClockAdvances

SpecPolicy == InitPolicy /\ [][NextPolicy]_vars

\* ====================================================== the failing store
\* The store applies the update of one save() whole or, when the write
\* fails, not at all: save() is one update of one document.
StoreWrite(doc, st, ok) == IF ok THEN doc ELSE st

\* An operation that answers a failed write as if it had succeeded.
SettlesSwallowed(saves, ok) == "resolved"

\* How the promise of addMember, removeMember and addClaim settles: each
\* returns the promise of this.save() as it is (removeMember without a
\* record returns Promise.resolve(this)).
Settles(saves, ok) == IF saves /\ ~ok THEN "rejected" ELSE "resolved"

\* The calls of this.save() in one operation.
SaveCalls(saves) == IF saves THEN 1 ELSE 0

\* The memberData objects of the calls on the failing store: role or none,
\* permissions or none.
WriteMemberData ==
    {md \in MemberData : md.carries \subseteq {"permissions"} /\ md.role # "manager"}

\* The policy the claims are filed against.
FailurePolicy ==
    [isActive |-> TRUE, startDate |-> D(0, 0), endDate |-> D(365, 0),
     coveredItems |-> <<"e1", "e2">>, claimHistory |-> << >>,
     populated |-> FALSE]

\* A Band without members or a policy without claims, each in sync with
\* the store; the operations of a behaviour are all on one of the two.
InitFailure ==
    /\ members = << >>
    /\ stored = << >>
    /\ now = 0
    /\ last = Created
    /\ policy = FailurePolicy
    /\ policyStored = StoredOf(policy)
    /\ equipment = EquipmentCollection
    /\ clock = D(0, 0)
    /\ got = NoCall
    /\ \E engine \in {"band", "policy"} :
          write = WriteOutcome(engine, "none", 0, FALSE, "none")
    /\ RaceIdle /\ RouterIdle /\ GearIdle /\ AuthIdle

\* band.addMember(memberData) where the write of the store succeeds (ok) or
\* fails.
AddMemberWrite(md, ok) ==
    /\ write.engine = "band"
    /\ (md.role = Undefined) => (FindIndex(members, md.userId) > 0)
    /\ members' = AddMemberDoc(members, md, now)
    /\ stored' = StoreWrite(Save(members', stored), stored, ok)
    /\ write' = WriteOutcome("band", "addMember", SaveCalls(TRUE), ~ok,
                             Settles(TRUE, ok))
    /\ UNCHANGED <<now, last, policyVars, raceVars, routerVars, gearVars, authVars>>

\* band.removeMember(userId) where the write of the store succeeds or fails.
RemoveMemberWrite(userId, ok) ==
    LET saves == RemoveMemberSaves(members, userId) IN
    /\ write.engine = "band"
    /\ members' = RemoveMemberDoc(members, userId)
    /\ stored' = IF saves THEN StoreWrite(Save(members', stored), stored, ok)
                 ELSE stored
    /\ write' = WriteOutcome("band", "removeMember", SaveCalls(saves),
                             saves /\ ~ok, Settles(saves, ok))
    /\ UNCHANGED <<now, last, policyVars, raceVars, routerVars, gearVars, authVars>>

\* policy.addClaim(claimData) where the write of the store succeeds or fails.
AddClaimWrite(cd, ok) ==
    /\ write.engine = "policy"
    /\ Len(policy.claimHistory) < MaxClaims
    /\ policy' = AddClaimDoc(policy, cd)
    /\ policyStored' = StoreWrite(StoredOf(policy'), policyStored, ok)
    /\ write' = WriteOutcome("policy", "addClaim", SaveCalls(TRUE), ~ok,
                             Settles(TRUE, ok))
    /\ UNCHANGED <<equipment, clock, got, bandVars, raceVars, routerVars,
                   gearVars, authVars>>

NextFailure ==
    \/ \E md \in WriteMemberData, ok \in BOOLEAN : AddMemberWrite(md, ok)
    \/ \E u \in Users, ok \in BOOLEAN : RemoveMemberWrite(u, ok)
    \/ \E cd \in ClaimData, ok \in BOOLEAN : AddClaimWrite(cd, ok)

SpecFailure == InitFailure /\ [][NextFailure]_vars

\* ===================================================== concurrent requests
\* The member lists of the stored Band the requests load: no member, u1
\* active, u1 removed.
RaceLists ==
    {<< >>,
     <<[userId |-> "u1", role |-> "guitarist", permissions |-> <<"view">>,
        dateJoined |-> 0, isActive |-> TRUE]>>,
     <<[userId |-> "u1", role |-> "guitarist", permissions |-> <<"view">>,
        dateJoined |-> 0, isActive |-> FALSE]>>}

\* The memberData of the requests: u1 or u2 as guitarist, u1 as manager
\* with admin.
RaceMemberData ==
    {md \in MemberData :
        \/ md.role = "guitarist" /\ md.carries = {}
        \/ /\ md.userId = "u1" /\ md.role = "manager"
           /\ md.carries = {"permissions"} /\ md.permissions = <<"admin">>}

\* The paths of member i that the request modified.
Modified(base, doc, i) ==
    {f \in {"role", "permissions", "isActive"} : doc[i][f] # base[i][f]}

\* The member i of the store after $set of the modified paths.
SetPaths(m, to, paths) ==
    [userId |-> m.userId,
     role |-> IF "role" \in paths THEN to.role ELSE m.role,
     permissions |-> IF "permissions" \in paths THEN to.permissions ELSE m.permissions,
     dateJoined |-> m.dateJoined,
     isActive |-> IF "isActive" \in paths THEN to.isActive ELSE m.isActive]

\* this.save() of a document loaded as base at version lv and changed to
\* doc, on a store that holds st at version sv.  save() sends the changes
\* and not the document: the pushed members go as $push, which needs no
\* version and increments it; the modified paths of a member go as $set of
\* members.i.path under the condition that the version is the loaded one
\* (VersionError otherwise, and nothing is written), and a $set of the
\* permissions array increments the version; no change, no update.
SaveDelta(base, doc, st, lv, sv) ==
    IF Len(doc) > Len(base)
    THEN [stored |-> st \o SubSeq(doc, Len(base) + 1, Len(doc)), v |-> sv + 1,
          settled |-> "resolved"]
    ELSE IF doc = base
    THEN [stored |-> st, v |-> sv, settled |-> "resolved"]
    ELSE IF lv # sv
    THEN [stored |-> st, v |-> sv, settled |-> "VersionError"]
    ELSE [stored |-> [i \in 1..Len(st) |->
                        IF i <= Len(doc)
                        THEN SetPaths(st[i], doc[i], Modified(base, doc, i))
                        ELSE st[i]],
          v |-> IF \E i \in 1..Len(doc) : "permissions" \in Modified(base, doc, i)
                THEN sv + 1 ELSE sv,
          settled |-> "resolved"]

\* A stored Band that two requests are about to work on.
InitRace ==
    /\ stored \in RaceLists
    /\ members = stored
    /\ now = 0
    /\ last = Created
    /\ PolicyIdle
    /\ WriteIdle
    /\ RaceIdle /\ RouterIdle /\ GearIdle /\ AuthIdle

\* The request loads the Band (Band.findById).
LoadBand(p) ==
    /\ session[p].pc = "idle"
    /\ session' = [session EXCEPT ![p] =
            [pc |-> "loaded", base |-> stored, doc |-> stored, v |-> storeV.v,
             seen |-> storeV.saves, settled |-> "none"]]
    /\ UNCHANGED <<bandVars, policyVars, storeV, failVars, routerVars, gearVars, authVars>>

\* The request calls band.addMember(memberData) on the document it loaded.
AddMemberRace(p, md) ==
    LET doc == AddMemberDoc(session[p].base, md, now)
        sd == SaveDelta(session[p].base, doc, stored, session[p].v, storeV.v)
    IN  /\ session[p].pc = "loaded"
        /\ stored' = sd.stored
        /\ storeV' = [v |-> sd.v, saves |-> storeV.saves + 1,
                      lastSaver |-> IF sd.settled = "resolved" THEN p
                                    ELSE storeV.lastSaver]
        /\ session' = [session EXCEPT ![p] =
                [@ EXCEPT !.pc = "done", !.doc = doc, !.settled = sd.settled]]
        /\ UNCHANGED <<members, now, last, policyVars, failVars, routerVars, gearVars,
                       authVars>>

NextRace ==
    \/ \E p \in Procs : LoadBand(p)
    \/ \E p \in Procs, md \in RaceMemberData : AddMemberRace(p, md)

SpecRace == InitRace /\ [][NextRace]_vars

\* ================================================== the insurance router
Methods == {"GET", "POST", "PUT", "DELETE"}

\* The path segments of the requests below /api/v1/insurance: an ObjectId
\* and two words.
MongoIds == {"64b000000000000000000001"}

Segments == MongoIds \cup {"expiring", "claim"}

\* isMongoId
IsMongoId(seg) == seg \in MongoIds

\* The longest path of a request, in segments.
MaxPath == 3

Paths == UNION {[1..n -> Segments] : n \in 0..MaxPath}

\* The parameters of the route patterns.
Params == {":id", ":claimId"}

\* A route: method, pattern, whether it validates the body or the query
\* besides the parameters of the pattern, and its handler.
Route(method, pattern, checksInput, handler) ==
    [method |-> method, pattern |-> pattern, checksInput |-> checksInput,
     handler |-> handler]

\* The routes with GET /expiring registered before GET /:id.
RoutesExpiringFirst ==
    <<Route("GET", << >>, TRUE, "getAllPolicies"),
      Route("GET", <<"expiring">>, FALSE, "getExpiringPolicies"),
      Route("GET", <<":id">>, FALSE, "getPolicyById"),
      Route("POST", << >>, TRUE, "createPolicy"),
      Route("PUT", <<":id">>, TRUE, "updatePolicy"),
      Route("DELETE", <<":id">>, FALSE, "deletePolicy"),
      Route("POST", <<":id", "claim">>, TRUE, "addClaim"),
      Route("PUT", <<":id", "claim", ":claimId">>, TRUE, "updateClaim"),
      Route("DELETE", <<":id", "claim", ":claimId">>, FALSE, "deleteClaim")>>

\* The routes of insurance.routes.js in the order they are registered.
Routes ==
    <<Route("GET", << >>, TRUE, "getAllPolicies"),
      Route("GET", <<":id">>, FALSE, "getPolicyById"),
      Route("POST", << >>, TRUE, "createPolicy"),
      Route("PUT", <<":id">>, TRUE, "updatePolicy"),
      Route("DELETE", <<":id">>, FALSE, "deletePolicy"),
      Route("POST", <<":id", "claim">>, TRUE, "addClaim"),
      Route("PUT", <<":id", "claim", ":claimId">>, TRUE, "updateClaim"),
      Route("DELETE", <<":id", "claim", ":claimId">>, FALSE, "deleteClaim"),
      Route("GET", <<"expiring">>, FALSE, "getExpiringPolicies")>>

\* The route matches the request: the method, and the path segment by
\* segment, where a parameter matches any segment.
Matches(route, method, path) ==
    /\ route.method = method
    /\ Len(route.pattern) = Len(path)
    /\ \A i \in 1..Len(path) :
          route.pattern[i] \in Params \/ route.pattern[i] = path[i]

\* The first route that matches, 0 if none does.
FirstMatch(routes, method, path) ==
    IF \E i \in 1..Len(routes) : Matches(routes[i], method, path)
    THEN CHOOSE i \in 1..Len(routes) :
            /\ Matches(routes[i], method, path)
            /\ \A j \in 1..(i - 1) : ~Matches(routes[j], method, path)
    ELSE 0

\* validateRequest after the validators of the route: every parameter is an
\* ObjectId, and the body and query pass where the route checks them.
PassesValidation(route, path, valid) ==
    /\ \A i \in 1..Len(path) : route.pattern[i] \in Params => IsMongoId(path[i])
    /\ route.checksInput => valid

\* The answer of the router: authMiddleware, then the first matching route
\* with its validators and validateRequest, then its handler.
Dispatch(routes, method, path, authenticated, valid) ==
    LET r == FirstMatch(routes, method, path)
        answer(status, handler) ==
            [method |-> method, path |-> path, authenticated |-> authenticated,
             valid |-> valid, status |-> status, handler |-> handler, route |-> r]
    IN  IF ~authenticated THEN [answer(401, "none") EXCEPT !.route = 0]
        ELSE IF r = 0 THEN answer(404, "none")
        ELSE IF ~PassesValidation(routes[r], path, valid) THEN answer(422, "none")
        ELSE answer(200, routes[r].handler)

InitRouter ==
    /\ response = NoResponse
    /\ BandIdle /\ PolicyIdle
    /\ WriteIdle /\ RaceIdle /\ GearIdle /\ AuthIdle

\* A request to /api/v1/insurance and its path below.
Request(method, path, authenticated, valid) ==
    /\ response' = Dispatch(Routes, method, path, authenticated, valid)
    /\ UNCHANGED <<bandVars, policyVars, failVars, raceVars, gearVars, authVars>>

NextRouter ==
    \E method \in Methods, path \in Paths, authenticated \in BOOLEAN,
       valid \in BOOLEAN : Request(method, path, authenticated, valid)

SpecRouter == InitRouter /\ [][NextRouter]_vars

\* =============================================== the equipment controller
\* The maintenance records and schedules of one Equipment document.
MaxRecords == 1

Names == {"bass", "cello"}

\* The request bodies: name and userId, each optional (carries holds the
\* keys the body has).
EquipmentBodies ==
    {b \in [name : Names, userId : Users, carries : SUBSET {"name", "userId"}] :
        /\ "name" \notin b.carries => b.name = "bass"
        /\ "userId" \notin b.carries => b.userId = "u1"}

\* A maintenance record or schedule as the handlers push it.
Record(kind) == [kind |-> kind]

\* findOne by the id alone.
FindOneById(g, id, userId) == g[id].exists

\* Equipment.findOne({ _id: equipmentId, userId }): whether a document is
\* found.
FindOne(g, id, userId) == g[id].exists /\ g[id].userId = userId

\* Equipment.create({ ...req.body, userId }): the userId of the
\* authenticated user replaces the one of the body.  createdBy is that user
\* too: it is no path of the schema and no handler writes it again.
CreateDoc(body, userId) ==
    [exists |-> TRUE, userId |-> userId, createdBy |-> userId, name |-> body.name,
     maintenanceHistory |-> << >>, maintenanceSchedule |-> << >>]

\* Equipment.findByIdAndUpdate(equipmentId, { $set: req.body }): every path
\* of the body is set.
UpdateDoc(doc, body) ==
    [doc EXCEPT !.name = IF "name" \in body.carries THEN body.name ELSE @,
                !.userId = IF "userId" \in body.carries THEN body.userId ELSE @]

Reply(op, user, id, status) == [op |-> op, user |-> user, id |-> id, status |-> status]

InitEquipment ==
    /\ gear = [e \in EquipmentDocIds |-> NoGear]
    /\ reply = NoReply
    /\ BandIdle /\ PolicyIdle
    /\ WriteIdle /\ RaceIdle /\ RouterIdle /\ AuthIdle

\* getEquipmentById, req.user._id = user and req.params.id = id
GetEquipmentById(user, id) ==
    /\ reply' = Reply("getEquipmentById", user, id,
                      IF FindOne(gear, id, user) THEN 200 ELSE 404)
    /\ UNCHANGED <<gear, bandVars, policyVars, failVars, raceVars, routerVars, authVars>>

\* createEquipment: the body has the required name; the document gets an
\* id no document has.
CreateEquipment(user, body) ==
    /\ "name" \in body.carries
    /\ \E id \in EquipmentDocIds :
          /\ ~gear[id].exists
          /\ gear' = [gear EXCEPT ![id] = CreateDoc(body, user)]
          /\ reply' = Reply("createEquipment", user, id, 201)
    /\ UNCHANGED <<bandVars, policyVars, failVars, raceVars, routerVars, authVars>>

\* updateEquipment
UpdateEquipment(user, id, body) ==
    /\ IF FindOne(gear, id, user)
       THEN /\ gear' = [gear EXCEPT ![id] = UpdateDoc(@, body)]
            /\ reply' = Reply("updateEquipment", user, id, 200)
       ELSE /\ gear' = gear
            /\ reply' = Reply("updateEquipment", user, id, 404)
    /\ UNCHANGED <<bandVars, policyVars, failVars, raceVars, routerVars, authVars>>

\* deleteEquipment
DeleteEquipment(user, id) ==
    /\ IF FindOne(gear, id, user)
       THEN /\ gear' = [gear EXCEPT ![id] = NoGear]
            /\ reply' = Reply("deleteEquipment", user, id, 200)
       ELSE /\ gear' = gear
            /\ reply' = Reply("deleteEquipment", user, id, 404)
    /\ UNCHANGED <<bandVars, policyVars, failVars, raceVars, routerVars, authVars>>

\* The document has room for one more record or schedule.
HasRoom(doc) == Len(doc.maintenanceHistory) + Len(doc.maintenanceSchedule) < MaxRecords

\* addMaintenanceRecord: push to maintenanceHistory and save.
AddMaintenanceRecord(user, id) ==
    /\ FindOne(gear, id, user) => HasRoom(gear[id])
    /\ IF FindOne(gear, id, user)
       THEN /\ gear' = [gear EXCEPT ![id].maintenanceHistory = Append(@, Record("service"))]
            /\ reply' = Reply("addMaintenanceRecord", user, id, 200)
       ELSE /\ gear' = gear
            /\ reply' = Reply("addMaintenanceRecord", user, id, 404)
    /\ UNCHANGED <<bandVars, policyVars, failVars, raceVars, routerVars, authVars>>

\* addMaintenanceSchedule: push to maintenanceSchedule and save.
AddMaintenanceSchedule(user, id) ==
    /\ FindOne(gear, id, user) => HasRoom(gear[id])
    /\ IF FindOne(gear, id, user)
       THEN /\ gear' = [gear EXCEPT ![id].maintenanceSchedule = Append(@, Record("task"))]
            /\ reply' = Reply("addMaintenanceSchedule", user, id, 200)
       ELSE /\ gear' = gear
            /\ reply' = Reply("addMaintenanceSchedule", user, id, 404)
    /\ UNCHANGED <<bandVars, policyVars, failVars, raceVars, routerVars, authVars>>

NextEquipment ==
    \/ \E user \in Users, id \in EquipmentDocIds : GetEquipmentById(user, id)
    \/ \E user \in Users, body \in EquipmentBodies : CreateEquipment(user, body)
    \/ \E user \in Users, id \in EquipmentDocIds, body \in EquipmentBodies :
          UpdateEquipment(user, id, body)
    \/ \E user \in Users, id \in EquipmentDocIds : DeleteEquipment(user, id)
    \/ \E user \in Users, id \in EquipmentDocIds : AddMaintenanceRecord(user, id)
    \/ \E user \in Users, id \in EquipmentDocIds : AddMaintenanceSchedule(user, id)

SpecEquipment == InitEquipment /\ [][NextEquipment]_vars

\* ==================================================== the auth controller
\* Date.now() advances in steps of half an hour, this many times.
MaxHalfHours == 3

\* The time a reset token is valid: Date.now() + 3600000.
ResetTtl == 3600000

\* Half an hour, in milliseconds: the step of Date.now() between requests.
HalfHour == ResetTtl \div 2

\* crypto.randomBytes(32).toString('hex'): the tokens it can give, and the
\* tokens a request can carry.
Tokens == {"t1", "t2"}

Passwords == {"New#pass1", "New#pass2"}

\* userSchema.pre('save'): a modified passwordHash is replaced by its hash.
Hash(password) == [hashOf |-> password]

\* User.findOne({ passwordResetToken: token,
\*                passwordResetExpires: { $gt: Date.now() } })
FindByResetToken(acc, token, t) ==
    \E r \in acc.reset : r.token = token /\ r.expires > t

\* The user after forgotPassword.
ForgotAccount(acc, token, t) ==
    [acc EXCEPT !.reset = {[token |-> token, expires |-> t + ResetTtl]}]

\* resetPassword that leaves the token and its expiry in place.
ResetAccountKeepsToken(acc, password) ==
    [acc EXCEPT !.passwordHash = Hash(password)]

\* The user after resetPassword: passwordHash = password (hashed by the
\* save), passwordResetToken and passwordResetExpires undefined.
ResetAccount(acc, password) ==
    [passwordHash |-> Hash(password), reset |-> {}]

AuthReply(op, token, password, status, code) ==
    [op |-> op, token |-> token, password |-> password, status |-> status,
     code |-> code]

InitAuth ==
    /\ AuthIdle
    /\ BandIdle /\ PolicyIdle
    /\ WriteIdle /\ RaceIdle /\ RouterIdle /\ GearIdle

\* forgotPassword: known tells whether a user has the email of the body.
ForgotPassword(known, token) ==
    /\ IF known
       THEN /\ account' = ForgotAccount(account, token, authNow)
            /\ mailbox' = {[token |-> token, madeAt |-> authNow, used |-> FALSE]}
       ELSE UNCHANGED <<account, mailbox>>
    /\ authReply' = AuthReply("forgotPassword", Undefined, Undefined, 200, "none")
    /\ UNCHANGED <<authNow, bandVars, policyVars, failVars, raceVars, routerVars,
                   gearVars>>

\* resetPassword with the token and password of the body.
ResetPassword(token, password) ==
    /\ IF FindByResetToken(account, token, authNow)
       THEN /\ account' = ResetAccount(account, password)
            /\ mailbox' = {[m EXCEPT !.used = TRUE] : m \in mailbox}
            /\ authReply' = AuthReply("resetPassword", token, password, 200, "none")
       ELSE /\ UNCHANGED <<account, mailbox>>
            /\ authReply' = AuthReply("resetPassword", token, password, 400,
                                      "INVALID_RESET_TOKEN")
    /\ UNCHANGED <<authNow, bandVars, policyVars, failVars, raceVars, routerVars,
                   gearVars>>

\* Time passes between the requests.
TimePasses ==
    /\ authNow < MaxHalfHours * HalfHour
    /\ authNow' = authNow + HalfHour
    /\ UNCHANGED <<account, authReply, mailbox, bandVars, policyVars, failVars,
                   raceVars, routerVars, gearVars>>

NextAuth ==
    \/ \E known \in BOOLEAN, token \in Tokens : ForgotPassword(known, token)
    \/ \E token \in Tokens, password \in Passwords : ResetPassword(token, password)
    \/ TimePasses

SpecAuth == InitAuth /\ [][NextAuth]_vars

\* ================================================================ claims
\* The indices of the active records of a user.
ActiveRecords(ms, userId) ==
    {i \in 1..Len(ms) : ms[i].userId = userId /\ ms[i].isActive}

\* The elements of an array.
Elements(arr) == {arr[i] : i \in 1..Len(arr)}

\* C1: after any sequence of addMember and removeMember on a Band created
\* without members, the member list (in the document and in the store) holds
\* at most one active record for each user.
C1_AtMostOneActivePerUser ==
    \A u \in Users :
        /\ Cardinality(ActiveRecords(members, u)) <= 1
        /\ Cardinality(ActiveRecords(stored, u)) <= 1

\* C1 witness: a user is active again after addMember, removeMember and
\* addMember, next to another active member.
C1_Witness ==
    /\ last.op = "addMember" /\ last.afterRemove
    /\ Len(members) = 2
    /\ \A u \in Users : Cardinality(ActiveRecords(members, u)) = 1

\* C2: hasPermission(userId, permission) returns false when the user has no
\* active record, otherwise true when the active member's permissions
\* contain admin, otherwise true exactly when they contain the requested
\* tag.
C2_HasPermissionDecision ==
    last.op = "hasPermission" =>
        LET active == ActiveRecords(members, last.userId) IN
        last.ret =
            IF active = {} THEN FALSE
            ELSE IF \E i \in active : "admin" \in Elements(members[i].permissions)
            THEN TRUE
            ELSE \E i \in active : last.permission \in Elements(members[i].permissions)

\* C2 witness: a member without admin is granted a tag of their permissions
\* while the Band also holds an inactive record that lists admin.
C2_Witness ==
    /\ last.op = "hasPermission" /\ last.ret
    /\ \E i \in ActiveRecords(members, last.userId) :
          "admin" \notin Elements(members[i].permissions)
    /\ \E i \in 1..Len(members) :
          ~members[i].isActive /\ "admin" \in Elements(members[i].permissions)

\* C3: for an active member whose stored permissions are exactly [admin],
\* hasPermission returns true for every requested tag, and the call stores
\* nothing: the member list is the same after it.
C3_AdminImpliesAll ==
    [][(/\ last'.op = "hasPermission"
        /\ \E i \in ActiveRecords(members, last'.userId) :
              members[i].permissions = <<"admin">>)
       => (last'.ret /\ members' = members /\ stored' = stored)]_vars

\* C3 witness: a member with permissions [admin] was granted inventory.
C3_Witness ==
    /\ last.op = "hasPermission" /\ last.permission = "inventory" /\ last.ret
    /\ \E i \in ActiveRecords(members, last.userId) :
          members[i].permissions = <<"admin">>

\* C4: addMember for a user who already has a record, active or not, appends
\* nothing: the record keeps its place, takes the role and the permissions
\* memberData carries (and keeps the ones memberData does not carry), is
\* active, and every other record is untouched.
C4_AddMemberUpdatesInPlace ==
    [][(last'.op = "addMember" /\ last'.branch = "update")
       => LET md == last'.md
              i == FindIndex(members, md.userId)
          IN  /\ i > 0
              /\ Len(members') = Len(members)
              /\ members'[i].userId = md.userId
              /\ members'[i].role = (IF md.role # Undefined THEN md.role
                                     ELSE members[i].role)
              /\ members'[i].permissions =
                    (IF "permissions" \in md.carries THEN md.permissions
                     ELSE members[i].permissions)
              /\ members'[i].isActive
              /\ \A j \in 1..Len(members) : j # i => members'[j] = members[j]]_vars

\* C4 witness: addMember changed the role and the permissions of an inactive
\* record and made it active.
C4_Witness ==
    /\ last.op = "addMember" /\ last.branch = "update" /\ ~last.wasActive
    /\ last.md.role = "manager" /\ last.md.permissions = <<"admin">>
    /\ "permissions" \in last.md.carries
    /\ \E i \in ActiveRecords(members, last.userId) :
          members[i].role = "manager" /\ members[i].permissions = <<"admin">>

\* C5: addMember called twice with the same memberData on a Band without
\* members leaves one record for the user, active, and the second call
\* leaves the member list as the first call left it.
C5_AddMemberIdempotent ==
    [][(/\ last.op = "addMember" /\ last.branch = "push" /\ Len(members) = 1
        /\ AddMember(last.md))
       => (/\ members' = members
           /\ Len(members') = 1
           /\ members'[1].isActive)]_vars

\* C6: addMember with memberData that carries no permissions, for a user
\* without a record, creates a member whose permissions are [view].
C6_DefaultPermissionsView ==
    (/\ last.op = "addMember" /\ last.branch = "push"
     /\ "permissions" \notin last.md.carries)
    => members[Len(members)].permissions = <<"view">>

\* C7: addMember for a user without a record appends exactly one record,
\* active and joined at the time of the call, whatever memberData carries.
C7_NewMemberActiveJoinedNow ==
    [][(last'.op = "addMember" /\ last'.branch = "push" /\ members' # members)
       => (/\ Len(members') = Len(members) + 1
           /\ \A i \in 1..Len(members) : members'[i] = members[i]
           /\ members'[Len(members')].userId = last'.userId
           /\ members'[Len(members')].isActive
           /\ members'[Len(members')].dateJoined = now)]_vars

\* C8: removeMember of a user with an active record makes that record
\* inactive and saves the Band, and no addMember or removeMember ever
\* removes a record: the list never gets shorter and every record keeps its
\* place, its user and its join date.
C8_RemoveDeactivatesNeverDeletes ==
    [][/\ Len(members') >= Len(members)
       /\ \A i \in 1..Len(members) :
             /\ members'[i].userId = members[i].userId
             /\ members'[i].dateJoined = members[i].dateJoined
       /\ (last'.op = "removeMember" /\ last'.wasActive /\ members' # members)
          => (/\ ActiveRecords(members', last'.userId) = {}
              /\ last'.saved
              /\ stored' = members')]_vars

\* C8 witness: removeMember made the record of an active member inactive and
\* the store holds it, next to the record of another user.
C8_Witness ==
    /\ last.op = "removeMember" /\ last.wasActive /\ last.saved
    /\ Len(members) = 2 /\ stored = members
    /\ \E i \in 1..Len(members) :
          members[i].userId = last.userId /\ ~members[i].isActive

\* C9: removeMember of a user without an active record (no record, or an
\* inactive one) changes nothing and does not call the store.
C9_RemoveInactiveIsNoOp ==
    [][(last'.op = "removeMember" /\ ~last'.wasActive /\ last' # last)
       => (members' = members /\ stored' = stored /\ ~last'.saved)]_vars

\* C10: addMember right after removeMember of the same user, who has a
\* record, makes that same record active again: nothing is appended, the
\* record keeps its place and its join date.
C10_ReactivationKeepsRecord ==
    [][(/\ last'.op = "addMember" /\ last'.afterRemove /\ last' # last
        /\ FindIndex(members, last'.userId) > 0)
       => LET i == FindIndex(members, last'.userId)
          IN  /\ Len(members') = Len(members)
              /\ FindIndex(members', last'.userId) = i
              /\ members'[i].isActive
              /\ members'[i].dateJoined = members[i].dateJoined]_vars

\* C10 witness: a member who joined at 0 was removed and added again at a
\* later time, and the record still says 0.
C10_Witness ==
    /\ last.op = "addMember" /\ last.afterRemove /\ last.branch = "update"
    /\ now > 0
    /\ \E i \in ActiveRecords(members, last.userId) : members[i].dateJoined < now

\* ----------------------------------------------------- the policy engine
\* a <= b on Dates.
NotAfter(a, b) == ~Before(b, a)

\* C11: the status read is Inactive if the active flag is false; otherwise
\* Expired if endDate < now; otherwise Future if startDate > now; otherwise
\* Active: the tests apply in that order.
C11_StatusPriority ==
    got.op = "status" =>
        /\ ~policy.isActive => got.status = "Inactive"
        /\ (policy.isActive /\ Before(policy.endDate, clock))
              => got.status = "Expired"
        /\ (policy.isActive /\ ~Before(policy.endDate, clock)
            /\ Before(clock, policy.startDate))
              => got.status = "Future"
        /\ (policy.isActive /\ ~Before(policy.endDate, clock)
            /\ ~Before(clock, policy.startDate))
              => got.status = "Active"

\* C11 witness: both date tests apply (endDate < now < startDate) and the
\* status read is Expired.
C11_Witness ==
    /\ got.op = "status" /\ got.status = "Expired" /\ policy.isActive
    /\ Before(policy.endDate, clock) /\ Before(clock, policy.startDate)

\* C12: a policy whose active flag is false has status Inactive whatever
\* startDate, endDate and now are, also after time has passed.
C12_InactiveRegardlessOfDates ==
    [][~policy'.isActive
       => (/\ Status(policy', clock') = "Inactive"
           /\ got'.op = "status" => got'.status = "Inactive")]_vars

\* C12 witness: time has passed, now is within the dates of an inactive
\* policy, and the status read is Inactive.
C12_Witness ==
    /\ got.op = "status" /\ got.status = "Inactive" /\ ~policy.isActive
    /\ Before(D(0, 0), clock)
    /\ NotAfter(policy.startDate, clock) /\ NotAfter(clock, policy.endDate)

\* C13 as claimed: for an active policy with any startDate and endDate,
\* now < startDate gives Future, startDate <= now <= endDate gives Active and
\* now > endDate gives Expired.
C13_StatusByDates ==
    (got.op = "status" /\ policy.isActive) =>
        /\ Before(clock, policy.startDate) => got.status = "Future"
        /\ (NotAfter(policy.startDate, clock) /\ NotAfter(clock, policy.endDate))
              => got.status = "Active"
        /\ Before(policy.endDate, clock) => got.status = "Expired"

\* C13 as amended: for an active policy with any startDate and endDate,
\* now > endDate gives Expired, now < startDate gives Future unless
\* now > endDate, and startDate <= now <= endDate gives Active, both ends
\* included.
C13_StatusByDatesAmended ==
    (got.op = "status" /\ policy.isActive) =>
        /\ (Before(clock, policy.startDate) /\ NotAfter(clock, policy.endDate))
              => got.status = "Future"
        /\ (NotAfter(policy.startDate, clock) /\ NotAfter(clock, policy.endDate))
              => got.status = "Active"
        /\ Before(policy.endDate, clock) => got.status = "Expired"

\* C13 witness: the status read at now = endDate, after the start, is Active.
C13_Witness ==
    /\ got.op = "status" /\ got.status = "Active" /\ policy.isActive
    /\ clock = policy.endDate /\ Before(policy.startDate, clock)

\* The place of a status on the way Future, Active, Expired.
StatusRank(status) ==
    IF status = "Future" THEN 1 ELSE IF status = "Active" THEN 2
    ELSE IF status = "Expired" THEN 3 ELSE 0

\* C14: for an active policy whose stored fields stay as they are, the
\* status moves only forward along Future, Active, Expired as now advances,
\* and neither the passing of time nor reading the status writes a field of
\* the document or of the store.
C14_StatusMovesForward ==
    [][/\ (/\ policy.isActive /\ policy'.isActive
           /\ policy'.startDate = policy.startDate
           /\ policy'.endDate = policy.endDate)
          => StatusRank(Status(policy', clock')) >= StatusRank(Status(policy, clock))
       /\ (clock' # clock \/ got'.op = "status")
          => (policy' = policy /\ policyStored' = policyStored)]_vars

\* C14 witness: a policy that was Future when it was created (day 0) is read
\* Expired.
C14_Witness ==
    /\ got.op = "status" /\ got.status = "Expired" /\ policy.isActive
    /\ Before(D(0, 0), policy.startDate)
    /\ Before(policy.startDate, policy.endDate)

\* The Date n days after t.
AddDays(t, n) == D(t.day + n, t.ms)

\* C15: daysRemaining is the time from now to endDate in days, rounded up to
\* a whole number, when endDate is not before now, and 0 once endDate < now;
\* it is never negative.
C15_DaysRemainingRoundsUp ==
    got.op = "daysRemaining" =>
        /\ got.days >= 0
        /\ Before(policy.endDate, clock) => got.days = 0
        /\ ~Before(policy.endDate, clock) =>
              /\ NotAfter(policy.endDate, AddDays(clock, got.days))
              /\ got.days > 0 => Before(AddDays(clock, got.days - 1), policy.endDate)

\* C15 witness: 30 days and one millisecond remain, and 31 is read.
C15_Witness ==
    /\ got.op = "daysRemaining" /\ got.days = 31
    /\ Before(clock, policy.endDate)
    /\ AbsDiff(policy.endDate, clock) = D(30, 1)

\* C16: with endDate fixed, daysRemaining at a later now is never more than
\* at an earlier now, and it stays 0 once it is 0.
C16_DaysRemainingNonIncreasing ==
    [][(policy'.endDate = policy.endDate /\ NotAfter(clock, clock'))
       => (/\ DaysRemaining(policy', clock') <= DaysRemaining(policy, clock)
           /\ DaysRemaining(policy, clock) = 0
                 => DaysRemaining(policy', clock') = 0)]_vars

\* C16 witness: a policy that had days remaining when it was created is read
\* with 0 days remaining after its endDate.
C16_Witness ==
    /\ got.op = "daysRemaining" /\ got.days = 0
    /\ Before(D(0, 0), policy.endDate) /\ Before(policy.endDate, clock)

\* C17: isExpiringSoon is true exactly when 0 < daysRemaining <= 30, that is
\* when endDate is after now and at most 30 days after it: true at exactly 30
\* days, false at 31 days and at 0 days, whatever the active flag and
\* startDate are.
C17_ExpiringSoonWindow ==
    got.op = "isExpiringSoon" =>
        /\ got.soon = (DaysRemaining(policy, clock) > 0
                       /\ DaysRemaining(policy, clock) <= 30)
        /\ got.soon = (/\ Before(clock, policy.endDate)
                       /\ NotAfter(policy.endDate, AddDays(clock, 30)))
        /\ policy.endDate = AddDays(clock, 30) => got.soon
        /\ policy.endDate = AddDays(clock, 31) => ~got.soon
        /\ policy.endDate = clock => ~got.soon

\* C17 witness: an inactive policy that has not started, with exactly 30 days
\* remaining, is expiring soon.
C17_Witness ==
    /\ got.op = "isExpiringSoon" /\ got.soon
    /\ policy.endDate = AddDays(clock, 30)
    /\ ~policy.isActive /\ Before(clock, policy.startDate)

\* C18: the policy from 2024-01-01 (day 0) to 2024-12-31 (day 365), active,
\* has on 2024-12-15 (day 349) status Active, 16 days remaining and is
\* expiring soon, and on 2025-01-15 (day 380) status Expired, 0 days
\* remaining and is not expiring soon.
C18_Scenario ==
    (/\ policy.isActive
     /\ policy.startDate = D(0, 0)
     /\ policy.endDate = D(365, 0))
    => /\ clock.day = 349 =>
            /\ got.op = "status" => got.status = "Active"
            /\ got.op = "daysRemaining" => got.days = 16
            /\ got.op = "isExpiringSoon" => got.soon
       /\ clock.day = 380 =>
            /\ got.op = "status" => got.status = "Expired"
            /\ got.op = "daysRemaining" => got.days = 0
            /\ got.op = "isExpiringSoon" => ~got.soon

\* C18 witness: 16 days remaining are read at 2024-12-15 00:00.
C18_Witness ==
    /\ policy.isActive /\ policy.startDate = D(0, 0) /\ policy.endDate = D(365, 0)
    /\ clock = D(349, 0)
    /\ got.op = "daysRemaining" /\ got.days = 16

\* s is a prefix of t.
IsPrefix(s, t) == Len(s) <= Len(t) /\ \A i \in 1..Len(s) : t[i] = s[i]

C20_ClaimHistoryAppendOnly ==
    [][/\ IsPrefix(policy.claimHistory, policy'.claimHistory)
       /\ IsPrefix(policyStored.claimHistory, policyStored'.claimHistory)]_vars

\* C20 witness: two different claims are in the history, in the order they
\* were filed, after getTotalCoverageValue was called.
C20_Witness ==
    /\ got.op = "getTotalCoverageValue"
    /\ Len(policy.claimHistory) = 2
    /\ policy.claimHistory[1].status = "Pending"
    /\ policy.claimHistory[2].status = "Paid"

\* The worth of the reference e to the coverage: the currentValue of the
\* Equipment it resolves to, 0 when that is unset or e resolves to nothing.
WorthOf(e, eq) ==
    IF eq[e].exists /\ eq[e].hasValue THEN eq[e].currentValue ELSE 0

\* The sum of the worth of the first n references of items.
RECURSIVE WorthUpTo(_, _, _)
WorthUpTo(items, n, eq) ==
    IF n = 0 THEN 0 ELSE WorthUpTo(items, n - 1, eq) + WorthOf(items[n], eq)

\* C21: getTotalCoverageValue returns the sum of currentValue over the
\* coveredItems that resolve, an unset currentValue counting 0 and the
\* references that do not resolve counting nothing; one item worth 500 and
\* one unresolvable reference give 500; no Equipment document is modified.
C21_TotalCoverageValue ==
    [][got'.op = "getTotalCoverageValue" =>
          /\ got'.total = WorthUpTo(policy.coveredItems,
                                    Len(policy.coveredItems), equipment)
          /\ policy.coveredItems = <<"e1", "e2">> => got'.total = 500
          /\ equipment' = equipment
          /\ policyStored' = policyStored]_vars

\* C21 witness: the total of a worth of 300, an unset worth and a worth of
\* 500 was returned.
C21_Witness ==
    /\ got.op = "getTotalCoverageValue" /\ got.total = 800
    /\ policy.coveredItems = <<"e4", "e3", "e1">> /\ policy.populated

\* C22: addMember, removeMember and addClaim persist the complete new
\* aggregate or nothing: when the write of the store fails the stored
\* aggregate is the one before the operation and the operation rejects,
\* after one call of save(); when it succeeds the store holds the whole
\* document.
C22_AllOrNothing ==
    [][(write'.op # "none" /\ <<members, policy, write>>' # <<members, policy, write>>)
       => /\ write'.failed =>
                /\ stored' = stored
                /\ policyStored' = policyStored
                /\ write'.settled = "rejected"
          /\ write'.saves <= 1
          /\ (~write'.failed /\ write'.saves = 1) =>
                /\ write'.settled = "resolved"
                /\ write'.engine = "band" => stored' = members'
                /\ write'.engine = "policy" => policyStored' = StoredOf(policy')
          /\ write'.saves = 0 =>
                /\ stored' = stored /\ policyStored' = policyStored
                /\ write'.settled = "resolved"]_vars

\* C22 witness: the second addClaim failed after the first succeeded: the
\* store holds the first claim alone and the call rejected.
C22_Witness ==
    /\ write.op = "addClaim" /\ write.failed /\ write.settled = "rejected"
    /\ Len(policy.claimHistory) = 2
    /\ policyStored.claimHistory = SubSeq(policy.claimHistory, 1, 1)

\* C23: when two addMember calls on the same Band each load the Band
\* before the other saves, the stored member list after both saves is the
\* document of the later save, and it holds at most one active record for
\* each user.
C23_LastWriterWins ==
    (/\ \A p \in Procs : session[p].pc = "done" /\ session[p].seen = 0
     /\ storeV.lastSaver \in Procs)
    => /\ stored = session[storeV.lastSaver].doc
       /\ \A u \in Users : Cardinality(ActiveRecords(stored, u)) <= 1

\* C24: isMember(userId) is true exactly when the member list holds a
\* record of the user whose isActive is true; a user with only an inactive
\* record is not a member.
C24_IsMemberIffActiveRecord ==
    last.op = "isMember" =>
        /\ last.ret = (ActiveRecords(members, last.userId) # {})
        /\ (/\ \E i \in 1..Len(members) : members[i].userId = last.userId
            /\ \A i \in 1..Len(members) :
                  members[i].userId = last.userId => ~members[i].isActive)
           => ~last.ret

\* C24 witness: isMember is false of a user whose one record is inactive,
\* in a Band with an active member.
C24_Witness ==
    /\ last.op = "isMember" /\ ~last.ret
    /\ \E i \in 1..Len(members) :
          members[i].userId = last.userId /\ ~members[i].isActive
    /\ \E i \in 1..Len(members) : members[i].isActive

\* C25: after removeMember(u), and until the next addMember for u,
\* isMember(u) is false and hasPermission(u, p) is false for every tag p,
\* also when the deactivated record lists admin; after addMember for u,
\* isMember(u) is true until the next removeMember(u).
C25_MembershipFollowsLastMutation ==
    [][\A u \in Users :
         /\ (last'.op = "removeMember" /\ last'.userId = u)
               => /\ ~IsMember(members', u)
                  /\ \A p \in PermissionTags : ~HasPermission(members', u, p)
         /\ (~IsMember(members, u) /\ ~(last'.op = "addMember" /\ last'.userId = u))
               => /\ ~IsMember(members', u)
                  /\ \A p \in PermissionTags : ~HasPermission(members', u, p)
         /\ (last'.op = "addMember" /\ last'.userId = u) => IsMember(members', u)
         /\ (IsMember(members, u) /\ ~(last'.op = "removeMember" /\ last'.userId = u))
               => IsMember(members', u)]_vars

\* C26 (as claimed): for a policy whose isActive is true, daysRemaining is 0
\* exactly when status is Expired, and isExpiringSoon is never true while
\* status is Expired.
C26_DerivedValuesAgree ==
    policy.isActive =>
        /\ (DaysRemaining(policy, clock) = 0) = (Status(policy, clock) = "Expired")
        /\ Status(policy, clock) = "Expired" => ~IsExpiringSoon(policy, clock)

\* C26 (amended): for a policy whose isActive is true, status Expired
\* implies daysRemaining 0 and isExpiringSoon false, and daysRemaining is 0
\* only when status is Expired or now = endDate, where status is Active or
\* Future.
C26_DerivedValuesAgreeAmended ==
    policy.isActive =>
        /\ Status(policy, clock) = "Expired" =>
              /\ DaysRemaining(policy, clock) = 0
              /\ ~IsExpiringSoon(policy, clock)
        /\ DaysRemaining(policy, clock) = 0 =>
              \/ Status(policy, clock) = "Expired"
              \/ /\ clock = policy.endDate
                 /\ Status(policy, clock) \in {"Active", "Future"}
        /\ got.op = "daysRemaining" => got.days = DaysRemaining(policy, clock)
        /\ got.op = "status" => got.status = Status(policy, clock)

\* C26 witness: at now = endDate, after the clock advanced, 0 days
\* remaining are read of a policy whose status is Active.
C26_Witness ==
    /\ policy.isActive /\ clock = policy.endDate /\ clock # D(0, 0)
    /\ got.op = "daysRemaining" /\ got.days = 0
    /\ Status(policy, clock) = "Active"

\* C27: an authenticated GET /api/v1/insurance/expiring is dispatched to
\* getExpiringPolicies: it is not taken by the route GET /:id and rejected
\* by the isMongoId validation of that route.
C27_ExpiringIsDispatched ==
    (/\ response.method = "GET" /\ response.path = <<"expiring">>
     /\ response.authenticated)
    => /\ response.handler = "getExpiringPolicies"
       /\ response.status # 422

\* The operations of the equipment controller that take the id of a
\* document.
ByIdOps ==
    {"getEquipmentById", "updateEquipment", "deleteEquipment",
     "addMaintenanceRecord", "addMaintenanceSchedule"}

\* C28: getEquipmentById, updateEquipment, deleteEquipment,
\* addMaintenanceRecord and addMaintenanceSchedule called by a user who is
\* not the owner of the document answer 404 and leave the document
\* unchanged, as they do for an id no document has.
C28_NonOwnerGetsNotFound ==
    [][(/\ reply'.op \in ByIdOps
        /\ ~(gear[reply'.id].exists /\ gear[reply'.id].userId = reply'.user))
       => /\ reply'.status = 404
          /\ gear' = gear]_vars

\* C28 witness: updateEquipment by a user who does not own the document,
\* which has a maintenance record, answered 404.
C28_Witness ==
    /\ reply.op = "updateEquipment" /\ reply.status = 404
    /\ gear[reply.id].exists /\ gear[reply.id].userId # reply.user
    /\ gear[reply.id].maintenanceHistory # << >>

\* C29: the owner of an Equipment document never changes: userId is the
\* authenticated user who created it, whatever the bodies of createEquipment,
\* updateEquipment, addMaintenanceRecord and addMaintenanceSchedule hold.
C29_OwnerNeverChanges ==
    \A id \in EquipmentDocIds :
        gear[id].exists => gear[id].userId = gear[id].createdBy

====
